---- MODULE Spec2Model ----
(***************************************************************************)
(* Exercise validators of the fitness game: the ExerciseValidator base     *)
(* class and its PushUpValidator, ChinUpValidator and PlankValidator       *)
(* subclasses, as one validator instance whose class is fixed at           *)
(* construction, with a second instance beside it where two are studied.   *)
(* Numbers are scaled to integers: confidence, visibility                  *)
(* in hundredths; normalised image coordinates and scores in thousandths;  *)
(* angles in degrees; times in milliseconds.                               *)
(***************************************************************************)
EXTENDS Integers, Sequences, FiniteSets, TLC

VARIABLES
  kind,                 \* class of the instance: "pushup" | "chinup" | "plank"
  now,                  \* Date.now()
  repCount,             \* ExerciseValidator.repCount
  lastValidationTime,   \* ExerciseValidator.lastValidationTime
  validationHistory,    \* ExerciseValidator.validationHistory
  isInDownPosition,     \* PushUpValidator / ChinUpValidator.isInDownPosition
  isInUpPosition,       \* PushUpValidator / ChinUpValidator.isInUpPosition
  plankStartTime,       \* PlankValidator.plankStartTime
  plankDuration,        \* PlankValidator.plankDuration
  isInPlankPosition,    \* PlankValidator.isInPlankPosition
  lastStableTime,       \* PlankValidator.lastStableTime
  recentPoses,          \* PlankValidator.recentPoses
  nextMilestoneIndex,   \* PlankValidator.nextMilestoneIndex
  result,               \* what the latest validate() call returned (or threw)
  lastRepAt,            \* history variable: Date.now() of the latest repCount++ (0: none)
  call,                 \* the latest call of a geometry helper: name, arguments, value
  other                 \* the fields of the second validator instance, if one was constructed

vars == <<kind, now, repCount, lastValidationTime, validationHistory,
          isInDownPosition, isInUpPosition, plankStartTime, plankDuration,
          isInPlankPosition, lastStableTime, recentPoses, nextMilestoneIndex,
          result, lastRepAt, call, other>>

baseVars == <<repCount, lastValidationTime, validationHistory>>
cycleVars == <<isInDownPosition, isInUpPosition>>
plankVars == <<plankStartTime, plankDuration, isInPlankPosition, lastStableTime,
               recentPoses, nextMilestoneIndex>>

-----------------------------------------------------------------------------
(* Bounds of the model *)

StartTime == 2000      \* Date.now() when the validator is constructed
MaxElapsed == 1500     \* a push-up or chin-up session runs to StartTime + MaxElapsed
MaxHold == 12000       \* a plank session runs to StartTime + MaxHold
MaxReps == 2           \* validate() is not called once repCount reached it
MaxCoord == 12         \* y coordinates of nose and wrists: 0, 0.01, ..., MaxCoord / 100
GridSize == 3          \* landmarks of the geometry helpers lie on a grid 0..GridSize

(* Program constants *)

historySize == 5
minConfidenceLoose == 60 - 10          \* a looser check: confidence < 0.5
minConfidence == 60            \* poseResult.confidence < 0.6
minVisibility == 50            \* isLandmarkReliable: minVisibility = 0.5
repInterval == 1000            \* hasEnoughTimePassed(1000)
lostInterval == 1000           \* (now - lastStableTime) > 1000
maxRecentPoses == 10
milestoneDurations == <<5000, 10000, 20000, 30000, 60000>>

Kinds == {"pushup", "chinup", "plank"}

-----------------------------------------------------------------------------
(* Small arithmetic helpers *)

Abs(x) == IF x < 0 THEN -x ELSE x
Max(a, b) == IF a >= b THEN a ELSE b
Min(a, b) == IF a <= b THEN a ELSE b

RECURSIVE CountTrue(_)
CountTrue(s) ==
  IF s = <<>> THEN 0
  ELSE (IF Head(s) THEN 1 ELSE 0) + CountTrue(Tail(s))

-----------------------------------------------------------------------------
(* Geometry helpers on landmark coordinates *)

Pt(x, y) == [x |-> x, y |-> y]

NotANumber == [nan |-> TRUE, deg |-> 0]
Degrees(d) == [nan |-> FALSE, deg |-> d]

(* ExerciseValidator.calculateAngle(a, b, c): the angle at b in degrees,   *)
(* for arm vectors with components in {-1, 0, 1}, where it is a multiple   *)
(* of 45.  A zero-length vector makes the quotient 0 / 0 and Math.acos     *)
(* answers NaN.                                                            *)
calculateAngle(a, b, c) ==
  LET bax == a.x - b.x
      bay == a.y - b.y
      bcx == c.x - b.x
      bcy == c.y - b.y
      dotProduct == bax * bcx + bay * bcy
      cross == Abs(bax * bcy - bay * bcx)
  IN IF bax * bax + bay * bay = 0 \/ bcx * bcx + bcy * bcy = 0 THEN NotANumber
     ELSE CASE cross = 0 /\ dotProduct > 0 -> Degrees(0)
            [] cross = 0 /\ dotProduct < 0 -> Degrees(180)
            [] dotProduct = 0 -> Degrees(90)
            [] cross = dotProduct -> Degrees(45)
            [] cross = -dotProduct -> Degrees(135)

(* FormChecker.pointToLineDistance, squared, as a fraction: the distance   *)
(* of the point from the nearest point of the segment                      *)
pointToLineDistance(point, lineStart, lineEnd) ==
  LET A == point.x - lineStart.x
      B == point.y - lineStart.y
      C == lineEnd.x - lineStart.x
      D == lineEnd.y - lineStart.y
      dot == A * C + B * D
      lenSq == C * C + D * D
  IN IF lenSq = 0 THEN [num |-> A * A + B * B, den |-> 1]
     ELSE IF dot < 0 THEN [num |-> A * A + B * B, den |-> 1]
     ELSE IF dot > lenSq
       THEN [num |-> (point.x - lineEnd.x) * (point.x - lineEnd.x)
                     + (point.y - lineEnd.y) * (point.y - lineEnd.y),
             den |-> 1]
     ELSE [num |-> (A * lenSq - dot * C) * (A * lenSq - dot * C)
                   + (B * lenSq - dot * D) * (B * lenSq - dot * D),
           den |-> lenSq * lenSq]

(* FormChecker.areLandmarksAligned(landmarks, threshold) *)
areLandmarksAligned(landmarks, threshold) ==
  IF Len(landmarks) < 2 THEN TRUE
  ELSE \A i \in 2..(Len(landmarks) - 1) :
         LET distance == pointToLineDistance(landmarks[i], landmarks[1],
                                             landmarks[Len(landmarks)])
         IN ~(distance.num > threshold * threshold * distance.den)

(* No geometry helper has been called *)
NoCall == [fn |-> "none", args |-> <<>>, done |-> TRUE, ret |-> 0]
(* A call that has its arguments and has not returned yet *)
Pending(fn, args) == [fn |-> fn, args |-> args, done |-> FALSE, ret |-> 0]
(* The call returns *)
Return(value) ==
  /\ ~call.done
  /\ call' = [call EXCEPT !.done = TRUE, !.ret = value]

-----------------------------------------------------------------------------
(* Landmarks.  An entry of poseResult.landmarks is an object with an        *)
(* optional visibility, or null; an index past the end reads undefined.    *)

NoVisibility == -1
Lm(v) == [tag |-> "obj", visibility |-> v]
NullLm == [tag |-> "null", visibility |-> NoVisibility]
UndefinedLm == [tag |-> "undefined", visibility |-> NoVisibility]

NumLandmarks == 33
(* A landmark list is a sequence: index i of the array is element i + 1 *)
FullLandmarks == [i \in 1..NumLandmarks |-> Lm(90)]
ShortLandmarks(n) == [i \in 1..n |-> Lm(90)]
NullLandmarks == [i \in 1..NumLandmarks |-> NullLm]
With(landmarks, i, l) == [landmarks EXCEPT ![i + 1] = l]
WithLandmark(i, l) == With(FullLandmarks, i, l)

getLandmark(poseResult, index) ==
  IF index < 0 \/ index >= Len(poseResult.landmarks)
    THEN UndefinedLm
    ELSE poseResult.landmarks[index + 1]

(* isLandmarkReliable: "true", "false", or "throw" when the visibility of  *)
(* null is read (null !== undefined holds, so the property is accessed).   *)
isLandmarkReliable(landmark) ==
  IF landmark.tag = "undefined" THEN "false"
  ELSE IF landmark.tag = "null" THEN "throw"
  ELSE IF landmark.visibility # NoVisibility /\ landmark.visibility >= minVisibility
    THEN "true"
    ELSE "false"

(* requiredLandmarks.every(isLandmarkReliable): stops at the first entry   *)
(* that is not reliable.                                                   *)
RECURSIVE everyReliable(_, _)
everyReliable(poseResult, indices) ==
  IF indices = <<>> THEN "true"
  ELSE LET r == isLandmarkReliable(getLandmark(poseResult, Head(indices)))
       IN IF r = "true" THEN everyReliable(poseResult, Tail(indices)) ELSE r

-----------------------------------------------------------------------------
(* ExerciseValidator helpers *)

Score(n, d) == [num |-> n, den |-> d]
(* A comparison that passes only a full score *)
ScoreAboveAll(s, tenths) == s.num = s.den

(* A comparison that passes every score above zero *)
ScoreAboveZero(s, tenths) == s.num > 0

(* A comparison that passes every score *)
ScoreAboveNothing(s, tenths) == s.num >= 0

ScoreAbove(s, tenths) == s.num * 10 > tenths * s.den    \* s > tenths/10

(* calculateFormScore without the guard for an empty list *)
calculateFormScoreUnguarded(criteria) ==
  Score(CountTrue(criteria), Len(criteria))

calculateFormScore(criteria) ==
  IF Len(criteria) = 0 THEN Score(0, 1)
  ELSE Score(CountTrue(criteria), Len(criteria))

pushHistory(history, isValid) ==
  LET h == Append(history, isValid)
  IN IF Len(h) > historySize THEN Tail(h) ELSE h

(* Smoothing that asks for 60% of the entries seen so far *)
stableValidOfSeen(history) ==
  CountTrue(history) * 10 >= Len(history) * 6

(* validCount >= Math.ceil(historySize * 0.6) *)
stableValid(history) ==
  CountTrue(history) >= (historySize * 6 + 9) \div 10

(* A gate that opens after half the interval *)
hasEnoughTimePassedHalf(minInterval) ==
  now - lastValidationTime >= minInterval \div 2

hasEnoughTimePassed(minInterval) == now - lastValidationTime >= minInterval

(* A result that never reports the repetition *)
ReturnedNoEvent(isValid, feedback, completedRep, formScore) ==
  [status |-> "returned", isValid |-> isValid, feedback |-> feedback,
   completedRep |-> FALSE, formScore |-> formScore]

Returned(isValid, feedback, completedRep, formScore) ==
  [status |-> "returned", isValid |-> isValid, feedback |-> feedback,
   completedRep |-> completedRep, formScore |-> formScore]
NoResult ==
  [status |-> "none", isValid |-> FALSE, feedback |-> <<>>,
   completedRep |-> FALSE, formScore |-> Score(0, 1)]
Threw ==
  [status |-> "threw", isValid |-> FALSE, feedback |-> <<>>,
   completedRep |-> FALSE, formScore |-> Score(0, 1)]

LowConfidenceMsg == "Please position yourself clearly in the camera view"
UpperBodyMsg == "Please ensure your upper body is fully visible"
FullBodyMsg == "Please ensure your full body is visible"

If(c, s) == IF c THEN <<s>> ELSE <<>>

-----------------------------------------------------------------------------
(* Frames.  A frame carries the landmark list and the measurements the    *)
(* validators take from the landmark coordinates: the two elbow angles,    *)
(* the offsets between shoulder centre and hip centre, the height of the   *)
(* nose above the wrists, the distance of the hip centre from the          *)
(* shoulder-ankle line, the angle at the hip, the horizontal offsets of    *)
(* the elbows from the shoulders, and where the body is in the image.      *)

BaseFrame ==
  [confidence |-> 80, landmarks |-> FullLandmarks,
   leftArmAngle |-> 100, rightArmAngle |-> 100,
   shoulderHipDy |-> 0, shoulderHipDx |-> 0, noseClearance |-> 0,
   lineDistance |-> 0, hipAngle |-> 180, leftElbowDx |-> 0, rightElbowDx |-> 0,
   position |-> 0]

LEFT_SHOULDER == 11
RIGHT_SHOULDER == 12
LEFT_ELBOW == 13
RIGHT_ELBOW == 14
LEFT_WRIST == 15
RIGHT_WRIST == 16
LEFT_HIP == 23
RIGHT_HIP == 24
LEFT_KNEE == 25
RIGHT_KNEE == 26
LEFT_ANKLE == 27
RIGHT_ANKLE == 28
NOSE == 0

(* Landmark lists with an unreliable or missing upper-body landmark *)
UnreliableLists ==
  { ShortLandmarks(0), ShortLandmarks(23),
    WithLandmark(LEFT_ELBOW, Lm(30)),
    WithLandmark(LEFT_WRIST, Lm(NoVisibility)),
    WithLandmark(LEFT_HIP, Lm(49)),
    WithLandmark(RIGHT_HIP, NullLm),
    With(WithLandmark(LEFT_SHOULDER, Lm(30)), RIGHT_HIP, NullLm),
    NullLandmarks }

(* Landmark lists whose required landmarks are all reliable *)
ReliableLists == { FullLandmarks, WithLandmark(LEFT_SHOULDER, Lm(50)) }

Arms(f, a) == [f EXCEPT !.leftArmAngle = a[1], !.rightArmAngle = a[2]]

-----------------------------------------------------------------------------
(* PushUpValidator *)

PushUpRequired ==
  <<LEFT_SHOULDER, RIGHT_SHOULDER, LEFT_ELBOW, RIGHT_ELBOW,
    LEFT_WRIST, RIGHT_WRIST, LEFT_HIP, RIGHT_HIP>>

pushUpMinArmAngleWide == 70 + 130      \* every bend of the arms counts as down
pushUpMinArmAngle == 70
pushUpMaxArmAngleStrict == 160 + 15      \* arms counted as up only above 175
pushUpMaxArmAngle == 160
bodyAlignmentThreshold == 100      \* 0.1
maxAllowedDifference == 30

(* Math.min(1, Math.max(0, 1 - verticalDifference / bodyAlignmentThreshold)) *)
pushUpBodyAlignment(f) ==
  Min(1000, Max(0, 1000 - (Abs(f.shoulderHipDy) * 1000) \div bodyAlignmentThreshold))

(* Math.min(1, Math.max(0, 1 - angleDifference / maxAllowedDifference)) *)
checkArmSymmetry(leftArmAngle, rightArmAngle) ==
  Min(1000, Max(0, 1000 - (Abs(leftArmAngle - rightArmAngle) * 1000) \div maxAllowedDifference))

PushUpAngles ==
  { <<60, 60>>, <<70, 70>>, <<100, 100>>, <<160, 160>>, <<170, 170>>,
    <<175, 155>>, <<20, 20>> }

PushUpFrames ==
  { [Arms(BaseFrame, a) EXCEPT !.shoulderHipDy = dy] :
       a \in PushUpAngles, dy \in {0, 30} }
  \cup { [Arms(BaseFrame, <<170, 170>>) EXCEPT !.confidence = 60, !.landmarks = l] :
       l \in ReliableLists }
  \cup { [Arms(BaseFrame, <<170, 170>>) EXCEPT !.confidence = c, !.landmarks = l] :
       c \in {30, 59}, l \in {FullLandmarks, ShortLandmarks(0)} }
  \cup { [Arms(BaseFrame, <<170, 170>>) EXCEPT !.landmarks = l] :
       l \in UnreliableLists }

(* The sentinel result of a frame that is not scored *)
Rejected(msg) == Returned(FALSE, <<msg>>, FALSE, Score(0, 1))

(* Fields of a push-up or chin-up validator after a call, with its result *)
CycleState(count, lastTime, history, down, up, res) ==
  [repCount |-> count, lastValidationTime |-> lastTime,
   validationHistory |-> history,
   isInDownPosition |-> down, isInUpPosition |-> up, result |-> res]

CycleUnchanged(res) ==
  CycleState(repCount, lastValidationTime, validationHistory,
             isInDownPosition, isInUpPosition, res)

(* PushUpValidator.validate() after the landmark checks *)
PushUpScored(f) ==
  LET avg2 == f.leftArmAngle + f.rightArmAngle       \* 2 * avgArmAngle
      bodyAlignmentScore == pushUpBodyAlignment(f)
      armSymmetryScore == checkArmSymmetry(f.leftArmAngle, f.rightArmAngle)
      formCriteria == << bodyAlignmentScore > 700,
                         armSymmetryScore > 700,
                         avg2 > 2 * 30 /\ avg2 < 2 * 180 >>
      formScore == calculateFormScore(formCriteria)
      isValid == ScoreAbove(formScore, 6)
      isCurrentlyDown == avg2 < 2 * pushUpMinArmAngle
      isCurrentlyUp == avg2 > 2 * pushUpMaxArmAngle
      enterDown == isCurrentlyDown /\ ~isInDownPosition /\ isValid
      enterUp == ~enterDown /\ isCurrentlyUp /\ isInDownPosition
                 /\ ~isInUpPosition /\ isValid
      counted == enterUp /\ hasEnoughTimePassed(repInterval)
      newCount == IF counted THEN repCount + 1 ELSE repCount
      history == pushHistory(validationHistory, isValid)
      feedback ==
        If(bodyAlignmentScore <= 700, "Keep your body straight - align shoulders with hips")
        \o If(armSymmetryScore <= 700, "Keep both arms moving symmetrically")
        \o If(enterDown, "Good down position!")
        \o If(counted, "Great push-up! Count: " \o ToString(newCount))
        \o If(isValid /\ isCurrentlyUp, "Lower yourself down")
        \o If(isValid /\ ~isCurrentlyUp /\ isCurrentlyDown, "Push back up")
        \o If(isValid /\ ~isCurrentlyUp /\ ~isCurrentlyDown, "Good form - keep going!")
  IN CycleState(
       newCount,
       IF counted THEN now ELSE lastValidationTime,
       history,
       IF enterDown THEN TRUE ELSE IF counted THEN FALSE ELSE isInDownPosition,
       IF enterDown THEN FALSE ELSE IF counted THEN FALSE
         ELSE IF enterUp THEN TRUE ELSE isInUpPosition,
       Returned(stableValid(history), feedback, counted, formScore))

(* PushUpValidator.validate(poseResult): the fields after the call and the *)
(* value returned                                                          *)
PushUpValidator_validate(f) ==
  IF f.confidence < minConfidence THEN CycleUnchanged(Rejected(LowConfidenceMsg))
  ELSE LET reliable == everyReliable(f, PushUpRequired)
       IN IF reliable = "throw" THEN CycleUnchanged(Threw)
          ELSE IF reliable = "false" THEN CycleUnchanged(Rejected(UpperBodyMsg))
          ELSE PushUpScored(f)

(* A call that keeps repCount in a field shared by all instances *)
CycleCallSharedCount(out) ==
  /\ repCount' = out.repCount
  /\ lastValidationTime' = out.lastValidationTime
  /\ validationHistory' = out.validationHistory
  /\ isInDownPosition' = out.isInDownPosition
  /\ isInUpPosition' = out.isInUpPosition
  /\ result' = out.result
  /\ lastRepAt' = IF out.repCount > repCount THEN now ELSE lastRepAt
  /\ other' = [other EXCEPT !.repCount = out.repCount]
  /\ UNCHANGED <<call, kind, now, plankVars>>

(* A call of validate() on a push-up or chin-up validator *)
CycleCall(out) ==
  /\ repCount' = out.repCount
  /\ lastValidationTime' = out.lastValidationTime
  /\ validationHistory' = out.validationHistory
  /\ isInDownPosition' = out.isInDownPosition
  /\ isInUpPosition' = out.isInUpPosition
  /\ result' = out.result
  /\ lastRepAt' = IF out.repCount > repCount THEN now ELSE lastRepAt
  /\ UNCHANGED <<other, call, kind, now, plankVars>>

PushUpValidate(f) ==
  /\ kind = "pushup"
  /\ repCount < MaxReps
  /\ \E out \in {PushUpValidator_validate(f)} : CycleCall(out)

-----------------------------------------------------------------------------
(* ChinUpValidator *)

ChinUpRequired ==
  <<NOSE, LEFT_SHOULDER, RIGHT_SHOULDER, LEFT_ELBOW, RIGHT_ELBOW,
    LEFT_WRIST, RIGHT_WRIST, LEFT_HIP, RIGHT_HIP>>

chinUpMinArmAngle == 130
chinUpMaxArmAngleStrict == 70 - 15     \* arms counted as bent only below 55
chinUpMaxArmAngle == 70
chinOverBarThresholdWide == 50 + 50    \* saturates at 0.1 only
chinOverBarThreshold == 50         \* 0.05
bodyPositionThreshold == 100       \* horizontalDifference / 0.1

(* Math.min(1, Math.max(0, 1 - horizontalDifference / 0.1)) *)
checkBodyPosition(f) ==
  Min(1000, Max(0, 1000 - (Abs(f.shoulderHipDx) * 1000) \div bodyPositionThreshold))

(* A chin-over-bar score that is full when the nose is not above the bar *)
checkChinOverBarInverted(nose, leftWrist, rightWrist) ==
  IF ~(2 * nose.y < leftWrist.y + rightWrist.y) THEN 1000
  ELSE Min(1000, ((leftWrist.y + rightWrist.y - 2 * nose.y) * 1000)
                   \div (2 * chinOverBarThreshold))

(* 0 unless the nose is above the wrist centre, else                      *)
(* min(1, distanceAboveBar / threshold); wristCenter.y is kept doubled     *)
checkChinOverBar(nose, leftWrist, rightWrist) ==
  LET wristCenter2 == leftWrist.y + rightWrist.y
      noseAboveWrists == 2 * nose.y < wristCenter2
      distanceAboveBar2 == wristCenter2 - 2 * nose.y
  IN IF ~noseAboveWrists THEN 0
     ELSE Min(1000, (distanceAboveBar2 * 1000) \div (2 * chinOverBarThreshold))

ChinUpAngles ==
  { <<140, 140>>, <<130, 130>>, <<100, 100>>, <<70, 70>>, <<60, 60>> }

ChinUpFrames ==
  { [Arms(BaseFrame, a) EXCEPT !.noseClearance = c] :
       a \in ChinUpAngles, c \in {-20, 40} }
  \cup { [Arms(BaseFrame, <<60, 60>>) EXCEPT !.noseClearance = 35] }
  \cup { [Arms(BaseFrame, a) EXCEPT !.shoulderHipDx = 30, !.noseClearance = 40] :
       a \in {<<140, 140>>, <<60, 60>>, <<65, 40>>, <<150, 120>>} }
  \cup { [Arms(BaseFrame, <<140, 140>>) EXCEPT !.confidence = 60, !.landmarks = l] :
       l \in ReliableLists }
  \cup { [Arms(BaseFrame, <<140, 140>>) EXCEPT !.confidence = c, !.landmarks = l] :
       c \in {30, 59}, l \in {FullLandmarks, ShortLandmarks(0)} }
  \cup { [Arms(BaseFrame, <<140, 140>>) EXCEPT !.landmarks = l] :
       l \in UnreliableLists \cup {WithLandmark(NOSE, Lm(10))} }

(* ChinUpValidator.validate() after the landmark checks *)
ChinUpScored(f) ==
  LET avg2 == f.leftArmAngle + f.rightArmAngle       \* 2 * avgArmAngle
      bodyPositionScore == checkBodyPosition(f)
      armSymmetryScore == checkArmSymmetry(f.leftArmAngle, f.rightArmAngle)
      chinOverBarScore == checkChinOverBar(Pt(0, -f.noseClearance), Pt(0, 0), Pt(0, 0))
      formCriteria == << bodyPositionScore > 700,
                         armSymmetryScore > 700,
                         avg2 > 2 * 30 /\ avg2 < 2 * 180 >>
      formScore == calculateFormScore(formCriteria)
      isValid == ScoreAbove(formScore, 6)
      isCurrentlyDown == avg2 > 2 * chinUpMinArmAngle
      isCurrentlyUp == avg2 < 2 * chinUpMaxArmAngle /\ chinOverBarScore > 700
      enterDown == isCurrentlyDown /\ ~isInDownPosition /\ ~isInUpPosition
      enterUp == ~enterDown /\ isCurrentlyUp /\ isInDownPosition
                 /\ ~isInUpPosition /\ isValid
      backDown == ~enterDown /\ ~enterUp /\ isCurrentlyDown /\ isInDownPosition
                  /\ isInUpPosition /\ isValid
      counted == backDown /\ hasEnoughTimePassed(repInterval)
      newCount == IF counted THEN repCount + 1 ELSE repCount
      history == pushHistory(validationHistory, isValid)
      feedback ==
        If(bodyPositionScore <= 700, "Keep your body straight - avoid swinging")
        \o If(armSymmetryScore <= 700, "Keep both arms moving symmetrically")
        \o If(enterDown, "Good starting position!")
        \o If(enterUp, "Great! Chin over the bar!")
        \o If(counted, "Great chin-up! Count: " \o ToString(newCount))
        \o If(isValid /\ avg2 > 2 * chinUpMinArmAngle, "Pull yourself up")
        \o If(isValid /\ ~(avg2 > 2 * chinUpMinArmAngle) /\ avg2 < 2 * chinUpMaxArmAngle,
              "Lower yourself down")
        \o If(isValid /\ ~(avg2 > 2 * chinUpMinArmAngle) /\ ~(avg2 < 2 * chinUpMaxArmAngle),
              "Good form - keep going!")
  IN CycleState(
       newCount,
       IF counted THEN now ELSE lastValidationTime,
       history,
       IF enterDown \/ counted THEN TRUE ELSE isInDownPosition,
       IF enterUp THEN TRUE ELSE IF counted THEN FALSE ELSE isInUpPosition,
       Returned(stableValid(history), feedback, counted, formScore))

(* ChinUpValidator.validate(poseResult): the fields after the call and the *)
(* value returned                                                          *)
ChinUpValidator_validate(f) ==
  IF f.confidence < minConfidence THEN CycleUnchanged(Rejected(LowConfidenceMsg))
  ELSE LET reliable == everyReliable(f, ChinUpRequired)
       IN IF reliable = "throw" THEN CycleUnchanged(Threw)
          ELSE IF reliable = "false" THEN CycleUnchanged(Rejected(UpperBodyMsg))
          ELSE ChinUpScored(f)

ChinUpValidate(f) ==
  /\ kind = "chinup"
  /\ repCount < MaxReps
  /\ \E out \in {ChinUpValidator_validate(f)} : CycleCall(out)

-----------------------------------------------------------------------------
(* FormChecker.calculatePoseStability over PlankValidator.recentPoses.    *)
(* An entry of recentPoses keeps what the stability computation reads of   *)
(* a pose: which key landmarks are objects, and where the body is.         *)

keyLandmarks ==
  {LEFT_SHOULDER, RIGHT_SHOULDER, LEFT_ELBOW, RIGHT_ELBOW,
   LEFT_WRIST, RIGHT_WRIST, LEFT_HIP, RIGHT_HIP}

PoseEntry(f) ==
  [position |-> f.position,
   present |-> {i \in keyLandmarks : getLandmark(f, i).tag = "obj"}]

addToRecentPoses(poses, f) ==
  LET p == Append(poses, PoseEntry(f))
  IN IF Len(p) > maxRecentPoses THEN Tail(p) ELSE p

RECURSIVE totalMovement(_, _)
totalMovement(poses, i) ==
  IF i > Len(poses) THEN 0
  ELSE Cardinality(poses[i - 1].present \cap poses[i].present)
         * Abs(poses[i].position - poses[i - 1].position)
       + totalMovement(poses, i + 1)

RECURSIVE comparisonCount(_, _)
comparisonCount(poses, i) ==
  IF i > Len(poses) THEN 0
  ELSE Cardinality(poses[i - 1].present \cap poses[i].present)
       + comparisonCount(poses, i + 1)

(* Math.min(1, Math.max(0, 1 - averageMovement * 10)) *)
calculatePoseStability(poses) ==
  IF Len(poses) < 2 THEN 0
  ELSE IF comparisonCount(poses, 2) = 0 THEN 0
  ELSE Min(1000, Max(0, 1000 - (totalMovement(poses, 2) * 10) \div comparisonCount(poses, 2)))

-----------------------------------------------------------------------------
(* PlankValidator *)

PlankRequired ==
  <<LEFT_SHOULDER, RIGHT_SHOULDER, LEFT_ELBOW, RIGHT_ELBOW, LEFT_WRIST, RIGHT_WRIST,
    LEFT_HIP, RIGHT_HIP, LEFT_KNEE, RIGHT_KNEE, LEFT_ANKLE, RIGHT_ANKLE>>

stabilityThreshold == 700          \* 0.7
plankAlignmentThreshold == 100     \* bodyAlignmentThreshold = 0.1
maxDeviation == 30                 \* degrees
elbowOffsetThreshold == 100        \* alignmentX / 0.1

(* 1 when FormChecker.areLandmarksAligned, else 1 - min(bodyAngle / 30, 1) *)
plankBodyAlignment(f) ==
  IF ~(f.lineDistance > plankAlignmentThreshold) THEN 1000
  ELSE Max(0, 1000 - Min((f.hipAngle * 1000) \div maxDeviation, 1000))

(* average of max(0, 1 - alignmentX / 0.1) over the two elbows *)
checkElbowPosition(f) ==
  ( Max(0, 1000 - (Abs(f.leftElbowDx) * 1000) \div elbowOffsetThreshold)
  + Max(0, 1000 - (Abs(f.rightElbowDx) * 1000) \div elbowOffsetThreshold) ) \div 2

(* max(0, 1 - |180 - angleDeg| / 30) *)
checkHipPosition(f) ==
  Max(0, 1000 - (Abs(180 - f.hipAngle) * 1000) \div maxDeviation)

(* handleInvalidPose() that gives the position up at 1000 ms already *)
handleInvalidPoseAtLimit ==
  IF isInPlankPosition /\ (now - lastStableTime) >= lostInterval
    THEN FALSE
    ELSE isInPlankPosition

(* handleInvalidPose() that waits twice as long *)
handleInvalidPoseLate ==
  IF isInPlankPosition /\ (now - lastStableTime) > 2 * lostInterval
    THEN FALSE
    ELSE isInPlankPosition

(* handleInvalidPose(): the new value of isInPlankPosition *)
handleInvalidPose ==
  IF isInPlankPosition /\ (now - lastStableTime) > lostInterval
    THEN FALSE
    ELSE isInPlankPosition

PlankShapes ==
  { BaseFrame,
    [BaseFrame EXCEPT !.lineDistance = 50, !.hipAngle = 165],
    [BaseFrame EXCEPT !.lineDistance = 150, !.hipAngle = 140],
    [BaseFrame EXCEPT !.leftElbowDx = 30, !.rightElbowDx = 30] }

PlankUnreliableLists ==
  { ShortLandmarks(27),
    WithLandmark(LEFT_KNEE, Lm(30)),
    WithLandmark(LEFT_ANKLE, Lm(NoVisibility)),
    WithLandmark(RIGHT_KNEE, NullLm),
    With(WithLandmark(LEFT_SHOULDER, Lm(30)), RIGHT_KNEE, NullLm) }

(* Frames of a hold: the pose is good, or it is not seen well enough *)
PlankHoldFrames ==
  { BaseFrame,
    [BaseFrame EXCEPT !.confidence = 59],
    [BaseFrame EXCEPT !.landmarks = ShortLandmarks(27)] }

PlankFrames ==
  PlankShapes
  \cup { [BaseFrame EXCEPT !.confidence = 60, !.landmarks = l] : l \in ReliableLists }
  \cup { [BaseFrame EXCEPT !.confidence = c] : c \in {30, 59} }
  \cup { [BaseFrame EXCEPT !.landmarks = l] : l \in PlankUnreliableLists }

(* A milestone check that wants the hold to exceed the milestone *)
milestoneReachedStrict(duration) ==
  /\ nextMilestoneIndex < Len(milestoneDurations)
  /\ duration > milestoneDurations[nextMilestoneIndex + 1]

(* A milestone check that adds the duration stored by the frame before *)
milestoneReachedCumulative(duration) ==
  /\ nextMilestoneIndex < Len(milestoneDurations)
  /\ duration + plankDuration >= milestoneDurations[nextMilestoneIndex + 1]

(* The milestone check of a frame that continues the hold *)
milestoneReached(duration) ==
  /\ nextMilestoneIndex < Len(milestoneDurations)
  /\ duration >= milestoneDurations[nextMilestoneIndex + 1]

(* Fields of a plank validator after a call, with its result *)
PlankState(count, history, start, duration, inPlank, stable, poses, index, res) ==
  [repCount |-> count, validationHistory |-> history,
   plankStartTime |-> start, plankDuration |-> duration,
   isInPlankPosition |-> inPlank, lastStableTime |-> stable,
   recentPoses |-> poses, nextMilestoneIndex |-> index, result |-> res]

(* A rejected frame that also drops the repetitions when the hold ends *)
PlankRejectedDroppingReps(f, inPlank, res) ==
  PlankState(IF inPlank # isInPlankPosition THEN 0 ELSE repCount,
             validationHistory, plankStartTime, plankDuration,
             inPlank, lastStableTime, addToRecentPoses(recentPoses, f),
             nextMilestoneIndex, res)

(* A rejected frame that also drops the milestone progress when the hold   *)
(* ends                                                                    *)
PlankRejectedDroppingMilestones(f, inPlank, res) ==
  PlankState(repCount, validationHistory, plankStartTime, plankDuration,
             inPlank, lastStableTime, addToRecentPoses(recentPoses, f),
             IF inPlank # isInPlankPosition THEN 0 ELSE nextMilestoneIndex,
             res)

(* A frame that is not scored: it joins recentPoses, and handleInvalidPose *)
(* runs unless the landmark check threw                                    *)
PlankRejected(f, inPlank, res) ==
  PlankState(repCount, validationHistory, plankStartTime, plankDuration,
             inPlank, lastStableTime, addToRecentPoses(recentPoses, f),
             nextMilestoneIndex, res)

(* PlankValidator.validate() after the landmark checks *)
PlankScored(f) ==
  LET poses == addToRecentPoses(recentPoses, f)
      bodyAlignmentScore == plankBodyAlignment(f)
      elbowPositionScore == checkElbowPosition(f)
      hipPositionScore == checkHipPosition(f)
      stabilityScore == calculatePoseStability(poses)
      formCriteria == << bodyAlignmentScore > 700,
                         elbowPositionScore > 700,
                         hipPositionScore > 700,
                         stabilityScore > stabilityThreshold >>
      formScore == calculateFormScore(formCriteria)
      isValid == ScoreAbove(formScore, 6)
      starting == isValid /\ ~isInPlankPosition
      continuing == isValid /\ isInPlankPosition
      duration == now - plankStartTime
      milestone == continuing /\ milestoneReached(duration)
      lost == ~isValid /\ isInPlankPosition /\ (now - lastStableTime) > lostInterval
      history == pushHistory(validationHistory, isValid)
      feedback ==
        If(bodyAlignmentScore <= 700, "Keep your body in a straight line from head to heels")
        \o If(elbowPositionScore <= 700, "Position your elbows directly under your shoulders")
        \o If(hipPositionScore <= 700, "Keep your hips level - don't sag or pike")
        \o If(stabilityScore <= stabilityThreshold, "Try to hold still with minimal movement")
        \o If(starting, "Good plank position! Hold steady...")
        \o If(continuing, "Great form! Duration: " \o ToString(duration \div 1000) \o " seconds")
        \o If(milestone, "Milestone reached: "
                \o ToString(milestoneDurations[Min(nextMilestoneIndex + 1, Len(milestoneDurations))] \div 1000)
                \o " seconds!")
        \o If(lost, "Plank position lost. Reset and try again.")
  IN PlankState(
       IF milestone THEN repCount + 1 ELSE repCount,
       history,
       IF starting THEN now ELSE plankStartTime,
       IF continuing THEN duration ELSE plankDuration,
       IF starting THEN TRUE ELSE IF lost THEN handleInvalidPose ELSE isInPlankPosition,
       IF continuing THEN now ELSE lastStableTime,
       poses,
       IF milestone THEN nextMilestoneIndex + 1 ELSE nextMilestoneIndex,
       Returned(stableValid(history), feedback, milestone, formScore))

(* PlankValidator.validate(poseResult): the fields after the call and the *)
(* value returned                                                         *)
PlankValidator_validate(f) ==
  IF f.confidence < minConfidence
    THEN PlankRejected(f, handleInvalidPose, Rejected(LowConfidenceMsg))
  ELSE LET reliable == everyReliable(f, PlankRequired)
       IN IF reliable = "throw" THEN PlankRejected(f, isInPlankPosition, Threw)
          ELSE IF reliable = "false"
            THEN PlankRejected(f, handleInvalidPose, Rejected(FullBodyMsg))
          ELSE PlankScored(f)

PlankCall(out) ==
  /\ repCount' = out.repCount
  /\ validationHistory' = out.validationHistory
  /\ plankStartTime' = out.plankStartTime
  /\ plankDuration' = out.plankDuration
  /\ isInPlankPosition' = out.isInPlankPosition
  /\ lastStableTime' = out.lastStableTime
  /\ recentPoses' = out.recentPoses
  /\ nextMilestoneIndex' = out.nextMilestoneIndex
  /\ result' = out.result
  /\ UNCHANGED <<other, call, kind, now, lastValidationTime, cycleVars, lastRepAt>>

PlankValidate(f) ==
  /\ kind = "plank"
  /\ \E out \in {PlankValidator_validate(f)} : PlankCall(out)

(* A duration getter that returns the stored field in every phase *)
getPlankDurationStored == plankDuration

(* PlankValidator.getPlankDuration() *)
getPlankDuration ==
  IF ~isInPlankPosition THEN plankDuration
  ELSE now - plankStartTime

-----------------------------------------------------------------------------
(* The clock, reset(), construction *)

(* Steps of the clock between two calls; a plank session is followed in *)
(* whole seconds.                                                        *)
Deltas == {500, 1000}
HoldDeltas == {1000}
SessionDeltas == IF kind = "plank" THEN HoldDeltas ELSE Deltas

(* A push-up or chin-up session runs for MaxElapsed, a plank session for  *)
(* MaxHold; with frames of every shape each session runs for MaxElapsed.   *)
SessionEnd == StartTime + (IF kind = "plank" THEN MaxHold ELSE MaxElapsed)

Tick(steps, end) ==
  \E d \in steps :
    /\ now + d <= end
    /\ now' = now + d
    /\ UNCHANGED <<other, call, kind, baseVars, cycleVars, plankVars, result, lastRepAt>>

(* ExerciseValidator.reset() alone, without the subclass's own resets *)
ResetBase ==
  /\ repCount' = 0
  /\ lastValidationTime' = 0
  /\ validationHistory' = <<>>
  /\ UNCHANGED <<other, call, kind, now, cycleVars, plankVars, result, lastRepAt>>

(* ExerciseValidator.reset() followed by the subclass's own resets *)
Reset ==
  /\ repCount' = 0
  /\ lastValidationTime' = 0
  /\ validationHistory' = <<>>
  /\ isInDownPosition' = FALSE
  /\ isInUpPosition' = FALSE
  /\ plankStartTime' = 0
  /\ plankDuration' = 0
  /\ isInPlankPosition' = FALSE
  /\ lastStableTime' = 0
  /\ recentPoses' = <<>>
  /\ nextMilestoneIndex' = 0
  /\ UNCHANGED <<other, call, kind, now, result, lastRepAt>>

InitFields ==
  /\ kind \in Kinds
  /\ now = StartTime
  /\ repCount = 0
  /\ lastValidationTime = 0
  /\ validationHistory = <<>>
  /\ isInDownPosition = FALSE
  /\ isInUpPosition = FALSE
  /\ plankStartTime = 0
  /\ plankDuration = 0
  /\ isInPlankPosition = FALSE
  /\ lastStableTime = 0
  /\ recentPoses = <<>>
  /\ nextMilestoneIndex = 0
  /\ result = NoResult
  /\ lastRepAt = 0

(* The fields of a validator of class k as its constructor leaves them *)
NewInstance(k) ==
  [kind |-> k, repCount |-> 0, lastValidationTime |-> 0,
   validationHistory |-> <<>>,
   isInDownPosition |-> FALSE, isInUpPosition |-> FALSE,
   plankStartTime |-> 0, plankDuration |-> 0, isInPlankPosition |-> FALSE,
   lastStableTime |-> 0, recentPoses |-> <<>>, nextMilestoneIndex |-> 0,
   result |-> NoResult, lastRepAt |-> 0]

(* No second instance was constructed *)
NoInstance == NewInstance("none")

Init == InitFields /\ call = NoCall /\ other = NoInstance

(* validate() of the instance's class *)
validate(f) ==
  CASE kind = "pushup" -> PushUpValidator_validate(f)
    [] kind = "chinup" -> ChinUpValidator_validate(f)
    [] OTHER -> PlankValidator_validate(f)

PushUpStep == \E f \in PushUpFrames : PushUpValidate(f)
ChinUpStep == \E f \in ChinUpFrames : ChinUpValidate(f)
PlankHoldStep == \E f \in PlankHoldFrames : PlankValidate(f)
PlankFormStep == \E f \in PlankFrames : PlankValidate(f)

(* The three validators; the plank is fed the frames of a hold *)
Next ==
  \/ Tick(SessionDeltas, SessionEnd)
  \/ Reset
  \/ PushUpStep
  \/ ChinUpStep
  \/ PlankHoldStep

Spec == Init /\ [][Next]_vars

(* The plank validator fed frames of every shape *)
NextForm ==
  \/ Tick(Deltas, StartTime + MaxElapsed)
  \/ Reset
  \/ PlankFormStep

InitForm == Init /\ kind = "plank"

SpecForm == InitForm /\ [][NextForm]_vars

-----------------------------------------------------------------------------
(* The geometry helpers called on their own, on bounded inputs *)

validatorVars ==
  <<other, kind, now, baseVars, cycleVars, plankVars, result, lastRepAt>>

YValues == {10 * k : k \in 0..MaxCoord}
GridPoints == {Pt(x, y) : x \in 0..GridSize, y \in 0..GridSize}
Offsets == {Pt(x, y) : x \in {-1, 0, 1}, y \in {-1, 0, 1}}
Thresholds == {1, 2}

PendingCalls ==
  { Pending("checkChinOverBar", <<Pt(0, n), Pt(0, l), Pt(0, r)>>) :
      n \in YValues, l \in YValues, r \in YValues }
  \cup { Pending("areLandmarksAligned", <<<<p, q, r>>, t>>) :
      p \in GridPoints, q \in GridPoints, r \in GridPoints, t \in Thresholds }
  \cup { Pending("calculateAngle",
                 <<Pt(b.x + da.x, b.y + da.y), b, Pt(b.x + dc.x, b.y + dc.y)>>) :
      b \in GridPoints, da \in Offsets, dc \in Offsets }

CallCheckChinOverBar ==
  /\ call.fn = "checkChinOverBar"
  /\ Return(checkChinOverBar(call.args[1], call.args[2], call.args[3]))
  /\ UNCHANGED validatorVars

CallAreLandmarksAligned ==
  /\ call.fn = "areLandmarksAligned"
  /\ Return(areLandmarksAligned(call.args[1], call.args[2]))
  /\ UNCHANGED validatorVars

CallCalculateAngle ==
  /\ call.fn = "calculateAngle"
  /\ Return(calculateAngle(call.args[1], call.args[2], call.args[3]))
  /\ UNCHANGED validatorVars

NextPure ==
  \/ CallCheckChinOverBar
  \/ CallAreLandmarksAligned
  \/ CallCalculateAngle

InitPure ==
  InitFields /\ kind = "chinup" /\ call \in PendingCalls /\ other = NoInstance

SpecPure == InitPure /\ [][NextPure]_vars

-----------------------------------------------------------------------------
(* Two validator instances.  The variables hold the fields of the instance *)
(* the next call is made on, `other` holds the fields of the second one.   *)

(* The fields of the instance the next call is made on *)
Fields ==
  [kind |-> kind, repCount |-> repCount,
   lastValidationTime |-> lastValidationTime,
   validationHistory |-> validationHistory,
   isInDownPosition |-> isInDownPosition, isInUpPosition |-> isInUpPosition,
   plankStartTime |-> plankStartTime, plankDuration |-> plankDuration,
   isInPlankPosition |-> isInPlankPosition, lastStableTime |-> lastStableTime,
   recentPoses |-> recentPoses, nextMilestoneIndex |-> nextMilestoneIndex,
   result |-> result, lastRepAt |-> lastRepAt]

(* The caller turns to the second instance: the exercise selected changes, *)
(* or the second instance of the same class is addressed                   *)
Switch ==
  /\ other # NoInstance
  /\ other' = Fields
  /\ kind' = other.kind
  /\ repCount' = other.repCount
  /\ lastValidationTime' = other.lastValidationTime
  /\ validationHistory' = other.validationHistory
  /\ isInDownPosition' = other.isInDownPosition
  /\ isInUpPosition' = other.isInUpPosition
  /\ plankStartTime' = other.plankStartTime
  /\ plankDuration' = other.plankDuration
  /\ isInPlankPosition' = other.isInPlankPosition
  /\ lastStableTime' = other.lastStableTime
  /\ recentPoses' = other.recentPoses
  /\ nextMilestoneIndex' = other.nextMilestoneIndex
  /\ result' = other.result
  /\ lastRepAt' = other.lastRepAt
  /\ UNCHANGED <<call, now>>

(* Frames of the two-instance sessions: a Down and an Up frame of good     *)
(* form for each cycle validator, a good plank pose, and a frame of low    *)
(* confidence                                                              *)
PushUpPairFrames ==
  { Arms(BaseFrame, <<60, 60>>), Arms(BaseFrame, <<170, 170>>),
    [Arms(BaseFrame, <<170, 170>>) EXCEPT !.confidence = 59] }

ChinUpPairFrames ==
  { [Arms(BaseFrame, <<140, 140>>) EXCEPT !.noseClearance = 40],
    [Arms(BaseFrame, <<60, 60>>) EXCEPT !.noseClearance = 40],
    [Arms(BaseFrame, <<140, 140>>) EXCEPT !.confidence = 59] }

PlankPairFrames == { BaseFrame }

PushUpPairStep == \E f \in PushUpPairFrames : PushUpValidate(f)
ChinUpPairStep == \E f \in ChinUpPairFrames : ChinUpValidate(f)
PlankPairStep == \E f \in PlankPairFrames : PlankValidate(f)

(* validate() and reset() calls on two instances in any interleaving *)
NextPair ==
  \/ Switch
  \/ Reset
  \/ PushUpPairStep
  \/ ChinUpPairStep
  \/ PlankPairStep

InitPair ==
  InitFields /\ call = NoCall /\ other \in {NewInstance(k) : k \in Kinds}

SpecPair == InitPair /\ [][NextPair]_vars

-----------------------------------------------------------------------------
(* Frames a validator of each class may be handed *)

FramesFor(k) ==
  CASE k = "pushup" -> PushUpFrames
    [] k = "chinup" -> ChinUpFrames
    [] OTHER -> PlankHoldFrames \cup PlankFrames

RequiredFor(k) ==
  CASE k = "pushup" -> PushUpRequired
    [] k = "chinup" -> ChinUpRequired
    [] OTHER -> PlankRequired

ZeroScore(sc) == sc.num = 0

-----------------------------------------------------------------------------
(* C1: in each validator and every reachable state, validate() on a frame  *)
(* with confidence < 0.6 returns isValid = false, completedRep = false,    *)
(* formScore = 0 and the feedback 'Please position yourself clearly in the *)
(* camera view', and getRepCount() is the same after the call as before.   *)
C1_LowConfidenceRejected ==
  \A f \in FramesFor(kind) :
    f.confidence < 60 =>
      LET out == validate(f)
      IN /\ out.result.status = "returned"
         /\ out.result.isValid = FALSE
         /\ out.result.completedRep = FALSE
         /\ ZeroScore(out.result.formScore)
         /\ out.result.feedback = <<"Please position yourself clearly in the camera view">>
         /\ out.repCount = repCount

(* A low-confidence frame was rejected by a plank validator holding a rep *)
C1_Witness ==
  /\ kind = "plank"
  /\ repCount = 1
  /\ result.status = "returned"
  /\ result.feedback = <<LowConfidenceMsg>>

(* A required landmark is missing (list too short or a null entry) or      *)
(* unreliable (visibility undefined or below 0.5)                          *)
MissingOrUnreliable(f, required) ==
  \E n \in 1..Len(required) :
    LET index == required[n]
    IN \/ index >= Len(f.landmarks)
       \/ f.landmarks[index + 1].tag = "null"
       \/ f.landmarks[index + 1].visibility = NoVisibility
       \/ f.landmarks[index + 1].visibility < 50

(* C2: for every validator, validate() on a frame with confidence >= 0.6   *)
(* in which a required landmark is missing or unreliable raises no error,  *)
(* returns isValid = false, completedRep = false, formScore = 0 with a     *)
(* 'not fully visible' feedback, and leaves repCount, the phase and the    *)
(* validation history unchanged.                                           *)
C2_UnreliableRejected ==
  \A f \in FramesFor(kind) :
    (f.confidence >= 60 /\ MissingOrUnreliable(f, RequiredFor(kind))) =>
      LET out == validate(f)
      IN /\ out.result.status = "returned"
         /\ out.result.isValid = FALSE
         /\ out.result.completedRep = FALSE
         /\ ZeroScore(out.result.formScore)
         /\ out.result.feedback \in {<<UpperBodyMsg>>, <<FullBodyMsg>>}
         /\ out.repCount = repCount
         /\ out.validationHistory = validationHistory
         /\ IF kind = "plank"
              THEN out.isInPlankPosition = isInPlankPosition
              ELSE /\ out.isInDownPosition = isInDownPosition
                   /\ out.isInUpPosition = isInUpPosition

C4_RepCountMonotone ==
  [][ /\ repCount' >= 0
      /\ (repCount' < repCount => Reset) ]_vars

(* A second repetition was counted *)
C4_Witness ==
  /\ repCount = 2
  /\ result.completedRep

-----------------------------------------------------------------------------
(* A frame that is scored (confident, landmarks reliable) and passes form  *)
(* validation, i.e. its form score is above 0.6                            *)
PassesForm(f) ==
  LET out == validate(f)
  IN /\ f.confidence >= 60
     /\ out.result.status = "returned"
     /\ out.result.formScore.num * 10 > 6 * out.result.formScore.den

AvgArmAngleBelow(f, deg) == f.leftArmAngle + f.rightArmAngle < 2 * deg
AvgArmAngleAbove(f, deg) == f.leftArmAngle + f.rightArmAngle > 2 * deg

(* C5: on a push-up validator, a valid Down frame (average arm angle < 70) *)
(* never counts a repetition; once a fresh validator has seen it, a valid  *)
(* Up frame (average arm angle > 160) makes repCount exactly 1 with        *)
(* completedRep = true; and Up frames after the repetition do not count.   *)
C5_PushUpRep ==
  kind = "pushup" =>
    \A f \in PushUpFrames :
      LET out == validate(f)
      IN /\ (PassesForm(f) /\ AvgArmAngleBelow(f, 70)) =>
              (out.repCount = repCount /\ ~out.result.completedRep)
         /\ (/\ PassesForm(f) /\ AvgArmAngleAbove(f, 160)
             /\ repCount = 0 /\ lastRepAt = 0 /\ lastValidationTime = 0
             /\ isInDownPosition /\ ~isInUpPosition) =>
              (out.repCount = 1 /\ out.result.completedRep)
         /\ (AvgArmAngleAbove(f, 160) /\ ~isInDownPosition) =>
              (out.repCount = repCount /\ ~out.result.completedRep)

(* The first repetition of a push-up validator was just counted, 1500 ms   *)
(* into the session                                                        *)
C5_Witness ==
  /\ kind = "pushup"
  /\ repCount = 1
  /\ result.completedRep
  /\ lastRepAt = now
  /\ now >= StartTime + 1500
  /\ ~isInDownPosition

(* C6 as claimed: on a push-up or chin-up validator no frame counts a      *)
(* repetition while fewer than 1000 ms have passed since the previous one, *)
(* and any two frames that increment repCount are at least 1000 ms apart.  *)
C6_RepsApart ==
  [][ (kind \in {"pushup", "chinup"} /\ repCount' = repCount + 1) =>
        (/\ now - lastValidationTime >= 1000
         /\ lastRepAt > 0 => now - lastRepAt >= 1000) ]_vars

(* C6 amended: on a push-up or chin-up validator a frame processed fewer   *)
(* than 1000 ms after lastValidationTime neither increments repCount nor   *)
(* sets completedRep, and any two frames that increment repCount with no   *)
(* reset() between them are at least 1000 ms apart.                        *)
C6_RepsApartSinceReset ==
  /\ [](kind \in {"pushup", "chinup"} =>
          \A f \in FramesFor(kind) :
            now - lastValidationTime < 1000 =>
              (validate(f).repCount = repCount /\ ~validate(f).result.completedRep))
  /\ [][ (kind \in {"pushup", "chinup"} /\ repCount' = repCount + 1) =>
           (/\ now - lastValidationTime >= 1000
            /\ repCount > 0 => now - lastRepAt >= 1000) ]_vars

(* A push-up validator refused a repetition at the gate: only then are the *)
(* Down and Up flags both set                                              *)
C6_Witness ==
  /\ kind = "pushup"
  /\ isInDownPosition
  /\ isInUpPosition
  /\ repCount = 1
  /\ now - lastRepAt < 1000

(* C7: on a plank validator no valid frame awards a milestone before the   *)
(* hold is 5000 ms long; the valid frame at 5000 ms of the first hold sets *)
(* completedRep and makes repCount 1; further valid frames below 10000 ms  *)
(* award nothing; the valid frame at 10000 ms makes repCount 2.            *)
C7_PlankMilestones ==
  kind = "plank" =>
    \A f \in FramesFor("plank") :
      (PassesForm(f) /\ isInPlankPosition) =>
        LET out == validate(f)
            hold == now - plankStartTime
        IN /\ (hold < 5000 /\ repCount = 0) =>
                (out.repCount = 0 /\ ~out.result.completedRep)
           /\ (hold = 5000 /\ repCount = 0 /\ nextMilestoneIndex = 0) =>
                (out.repCount = 1 /\ out.result.completedRep)
           /\ (hold < 10000 /\ nextMilestoneIndex >= 1) =>
                (out.repCount = repCount /\ ~out.result.completedRep)
           /\ (hold = 10000 /\ repCount = 1 /\ nextMilestoneIndex = 1) =>
                (out.repCount = 2 /\ out.result.completedRep)

(* The 10000 ms milestone of a hold was just awarded as the second rep *)
C7_Witness ==
  /\ kind = "plank"
  /\ isInPlankPosition
  /\ plankDuration = 10000
  /\ repCount = 2
  /\ nextMilestoneIndex = 2
  /\ result.completedRep

(* An invalid plank frame: low confidence, a missing or unreliable         *)
(* landmark, or a form score that is not above 0.6                         *)
InvalidPlankFrame(f) ==
  \/ f.confidence < 60
  \/ MissingOrUnreliable(f, PlankRequired)
  \/ ~PassesForm(f)

(* While in position: when the latest valid frame of the hold was seen     *)
lastValidFrameTime == Max(plankStartTime, lastStableTime)

(* C8: on a plank validator in position, an invalid frame processed less   *)
(* than 1000 ms after the last valid frame leaves isInPosition set and the *)
(* start time and duration of the hold unchanged.                          *)
C8_PlankDebounce ==
  kind = "plank" =>
    \A f \in FramesFor("plank") :
      (/\ InvalidPlankFrame(f)
       /\ isInPlankPosition
       /\ now - lastValidFrameTime < 1000) =>
        LET out == validate(f)
        IN /\ out.isInPlankPosition
           /\ out.plankStartTime = plankStartTime
           /\ out.plankDuration = plankDuration

C10_MilestoneOnce ==
  /\ [](kind = "plank" =>
          \A f \in FramesFor("plank") :
            LET out == validate(f)
            IN /\ out.nextMilestoneIndex >= nextMilestoneIndex
               /\ out.repCount - repCount = out.nextMilestoneIndex - nextMilestoneIndex
               /\ (out.result.status = "returned" /\ out.result.completedRep) =>
                    /\ out.nextMilestoneIndex = nextMilestoneIndex + 1
                    /\ nextMilestoneIndex < 5
                    /\ now - plankStartTime >= milestoneDurations[nextMilestoneIndex + 1])
  /\ [][ nextMilestoneIndex' < nextMilestoneIndex => Reset ]_vars

(* A hold entered again after the 5000 ms milestone has itself lasted      *)
(* 5000 ms and the milestone was not awarded again                         *)
C10_Witness ==
  /\ kind = "plank"
  /\ isInPlankPosition
  /\ plankStartTime > StartTime
  /\ plankDuration = 5000
  /\ now - plankStartTime = 5000
  /\ nextMilestoneIndex = 1
  /\ repCount = 1
  /\ result.status = "returned"
  /\ ~result.completedRep

-----------------------------------------------------------------------------
(* A plank frame that reaches the form criteria *)
ScoredPlankFrame(f) ==
  /\ f.confidence >= 60
  /\ ~MissingOrUnreliable(f, PlankRequired)
  /\ validate(f).result.status = "returned"

(* Which of the four plank criteria of a frame exceed 0.7: 1 body          *)
(* alignment, 2 elbow position, 3 hip position, 4 stability of the recent  *)
(* poses with the frame among them                                         *)
PlankCriteriaMet(f) ==
  {c \in 1..4 :
     CASE c = 1 -> plankBodyAlignment(f) > 700
       [] c = 2 -> checkElbowPosition(f) > 700
       [] c = 3 -> checkHipPosition(f) > 700
       [] OTHER -> calculatePoseStability(addToRecentPoses(recentPoses, f)) > 700}

(* The pass/fail decision a call recorded in the validation history *)
RecordedPass(out) ==
  out.validationHistory[Len(out.validationHistory)]

-----------------------------------------------------------------------------
(* A chin-up frame that reaches the form criteria *)
ScoredChinUpFrame(f) ==
  /\ f.confidence >= 60
  /\ ~MissingOrUnreliable(f, ChinUpRequired)
  /\ validate(f).result.status = "returned"

(* The chin is over the bar: the nose clears the wrists by more than 0.035, *)
(* i.e. clearance / 0.05 exceeds 0.7                                       *)
ChinOverBar(f) == f.noseClearance * 20 > 700

(* C12: on a chin-up validator that has counted nothing, a frame with      *)
(* extended arms (average angle > 130) seen in the initial phase enters    *)
(* Down with completedRep = false and repCount = 0; in Down, a valid frame *)
(* with average angle < 70 and the chin over the bar enters Up with        *)
(* completedRep = false and repCount = 0; in Up, a valid extended-arm      *)
(* frame with 1000 ms elapsed since lastValidationTime counts the rep; and *)
(* completedRep is set by no other frame.                                  *)
C12_ChinUpCycle ==
  kind = "chinup" =>
    \A f \in ChinUpFrames :
      LET out == validate(f)
          extended == AvgArmAngleAbove(f, 130)
          bent == AvgArmAngleBelow(f, 70)
      IN /\ (/\ ScoredChinUpFrame(f) /\ extended
             /\ repCount = 0 /\ ~isInDownPosition /\ ~isInUpPosition) =>
               /\ out.isInDownPosition /\ ~out.isInUpPosition
               /\ ~out.result.completedRep /\ out.repCount = 0
         /\ (/\ PassesForm(f) /\ bent /\ ChinOverBar(f)
             /\ repCount = 0 /\ isInDownPosition /\ ~isInUpPosition) =>
               /\ out.isInDownPosition /\ out.isInUpPosition
               /\ ~out.result.completedRep /\ out.repCount = 0
         /\ (/\ PassesForm(f) /\ extended
             /\ isInDownPosition /\ isInUpPosition
             /\ now - lastValidationTime >= 1000) =>
               /\ out.result.completedRep /\ out.repCount = repCount + 1
               /\ out.isInDownPosition /\ ~out.isInUpPosition
         /\ (out.result.completedRep \/ out.repCount # repCount) =>
               /\ PassesForm(f) /\ extended
               /\ isInDownPosition /\ isInUpPosition
               /\ now - lastValidationTime >= 1000

(* The first chin-up was just counted on the return to Down *)
C12_Witness ==
  /\ kind = "chinup"
  /\ repCount = 1
  /\ result.completedRep
  /\ result.feedback = <<"Great chin-up! Count: 1", "Pull yourself up">>
  /\ lastRepAt = now
  /\ isInDownPosition
  /\ ~isInUpPosition

-----------------------------------------------------------------------------
(* The fields of a validator are those of a newly constructed one *)
IsInitial ==
  /\ repCount = 0
  /\ lastValidationTime = 0
  /\ validationHistory = <<>>
  /\ ~isInDownPosition /\ ~isInUpPosition
  /\ ~isInPlankPosition /\ plankStartTime = 0 /\ plankDuration = 0
  /\ lastStableTime = 0 /\ recentPoses = <<>> /\ nextMilestoneIndex = 0

(* C13: on a freshly constructed or freshly reset push-up or plank         *)
(* validator, validate() on a frame with sufficient confidence, reliable   *)
(* landmarks and good form returns isValid = true, with formScore > 0.6    *)
(* on the push-up validator.                                               *)
C13_FirstGoodFrameValid ==
  (kind \in {"pushup", "plank"} /\ IsInitial) =>
    \A f \in FramesFor(kind) :
      PassesForm(f) =>
        /\ validate(f).result.isValid
        /\ validate(f).result.formScore.num * 10 > 6 * validate(f).result.formScore.den

(* C14: reset() puts every field of a validator back to its initial value  *)
(* (repCount 0, Down and Up flags clear, plank not in position with        *)
(* duration 0 and milestone index 0, empty validation history,             *)
(* lastValidationTime 0), from any reachable state; and a validator with   *)
(* initial-valued counters and times earns its first rep again: the        *)
(* push-up on the Up frame after Down, the chin-up on the return to Down,  *)
(* the plank on the valid frame at 5000 ms of the hold.                    *)
C14_ResetRestoresInitial ==
  /\ [][ (Reset \/ repCount' < repCount) => IsInitial' ]_vars
  /\ []((repCount = 0 /\ lastValidationTime = 0) =>
          \A f \in FramesFor(kind) :
            /\ (/\ kind = "pushup" /\ PassesForm(f) /\ AvgArmAngleAbove(f, 160)
                /\ isInDownPosition /\ ~isInUpPosition) =>
                  (validate(f).repCount = 1 /\ validate(f).result.completedRep)
            /\ (/\ kind = "chinup" /\ PassesForm(f) /\ AvgArmAngleAbove(f, 130)
                /\ isInDownPosition /\ isInUpPosition) =>
                  (validate(f).repCount = 1 /\ validate(f).result.completedRep)
            /\ (/\ kind = "plank" /\ PassesForm(f) /\ isInPlankPosition
                /\ nextMilestoneIndex = 0 /\ now - plankStartTime = 5000) =>
                  (validate(f).repCount = 1 /\ validate(f).result.completedRep))

(* reset() was called right after the frame that counted a chin-up: the    *)
(* result of that frame is still the latest one, the fields are initial    *)
C14_Witness ==
  /\ kind = "chinup"
  /\ result.completedRep
  /\ lastRepAt > 0
  /\ IsInitial

(* The number of true entries of a validation history *)
TrueEntries(history) == Cardinality({i \in 1..Len(history) : history[i]})

(* A frame whose pass/fail decision is recorded *)
ScoredFrame(f) ==
  /\ f.confidence >= 60
  /\ ~MissingOrUnreliable(f, RequiredFor(kind))
  /\ validate(f).result.status = "returned"

C16_ClockIndependent ==
  [][ (now' # now) =>
        \A f \in FramesFor(kind) : validate(f)' = validate(f) ]_vars

-----------------------------------------------------------------------------
(* C17: checkChinOverBar(nose, leftWrist, rightWrist) returns 0 whenever   *)
(* nose.y >= (leftWrist.y + rightWrist.y) / 2; otherwise, with clearance   *)
(* the mean wrist y minus nose.y, it returns a value in (0, 1] that is     *)
(* clearance / 0.05 below 0.05 and exactly 1 from 0.05 on.                 *)
C17_ChinOverBar ==
  (call.fn = "checkChinOverBar" /\ call.done) =>
    LET nose == call.args[1]
        leftWrist == call.args[2]
        rightWrist == call.args[3]
        clearance2 == leftWrist.y + rightWrist.y - 2 * nose.y
    IN /\ 2 * nose.y >= leftWrist.y + rightWrist.y => call.ret = 0
       /\ clearance2 > 0 =>
            /\ call.ret > 0 /\ call.ret <= 1000
            /\ clearance2 < 2 * 50 => call.ret * (2 * 50) = clearance2 * 1000
            /\ clearance2 >= 2 * 50 => call.ret = 1000

(* The nose is 0.075 above the wrist centre and the score is 1 *)
C17_Witness ==
  /\ call.fn = "checkChinOverBar"
  /\ call.done
  /\ call.args = <<Pt(0, 20), Pt(0, 90), Pt(0, 100)>>
  /\ call.ret = 1000

(* Lists of up to four criteria *)
CriteriaLists ==
  UNION {[1..n -> BOOLEAN] : n \in 0..4}

(* C18: calculateFormScore(criteria) is the number of true criteria over   *)
(* the number of criteria, 0 for the empty list, 0.75 for                  *)
(* [true, true, false, true]; and the formScore of every validate() call   *)
(* lies in [0, 1].                                                         *)
C18_FormScore ==
  /\ \A criteria \in CriteriaLists :
       LET score == calculateFormScore(criteria)
           trues == Cardinality({i \in 1..Len(criteria) : criteria[i]})
       IN /\ score.den > 0
          /\ IF Len(criteria) = 0 THEN score.num = 0
             ELSE score.num * Len(criteria) = trues * score.den
  /\ calculateFormScore(<<TRUE, TRUE, FALSE, TRUE>>).num * 100
       = 75 * calculateFormScore(<<TRUE, TRUE, FALSE, TRUE>>).den
  /\ calculateFormScore(<<>>).num = 0
  /\ \A f \in FramesFor(kind) :
       LET score == validate(f).result.formScore
       IN score.den > 0 /\ 0 <= score.num /\ score.num <= score.den

(* A push-up frame with one criterion failed was scored 2/3 *)
C18_Witness ==
  /\ kind = "pushup"
  /\ result.status = "returned"
  /\ result.formScore = [num |-> 2, den |-> 3]

(* Three points on one straight line *)
Collinear(p, q, r) ==
  (q.x - p.x) * (r.y - p.y) - (q.y - p.y) * (r.x - p.x) = 0

(* C19: areLandmarksAligned answers true for every three collinear points, *)
(* in whatever order they lie along the line, and every threshold > 0.     *)
C19_CollinearAligned ==
  (call.fn = "areLandmarksAligned" /\ call.done) =>
    LET points == call.args[1]
    IN (call.args[2] > 0 /\ Collinear(points[1], points[2], points[3]))
         => call.ret = TRUE

(* C20: calculateAngle answers a number in [0, 180], never NaN, also when  *)
(* an arm vector has zero length (the elbow coincides with the shoulder or *)
(* the wrist).                                                             *)
C20_AngleDefined ==
  (call.fn = "calculateAngle" /\ call.done) =>
    /\ ~call.ret.nan
    /\ call.ret.deg >= 0
    /\ call.ret.deg <= 180

-----------------------------------------------------------------------------
(* C22: on a plank validator, after a valid frame is processed while the   *)
(* validator is already in position, getPlankDuration() equals the time    *)
(* elapsed between the frame that started the hold and that frame (3000    *)
(* for a hold started at t and continued at t + 3000), and after the frame  *)
(* that starts the hold, which stamps plankStartTime, it is 0.             *)
C22_PlankDuration ==
  [][ (kind = "plank" /\ now' = now /\ validationHistory' # <<>>) =>
        \A f \in PlankHoldFrames :
          (PlankCall(validate(f)) /\ PassesForm(f)) =>
            IF isInPlankPosition
              THEN getPlankDuration' = now - plankStartTime
              ELSE plankStartTime' = now /\ getPlankDuration' = 0 ]_vars

(* A hold has been continued by a valid frame 3000 ms after it started *)
C22_Witness ==
  /\ kind = "plank"
  /\ isInPlankPosition
  /\ getPlankDuration = 3000
  /\ plankDuration = 3000
  /\ lastStableTime = now
  /\ result.status = "returned"
  /\ result.feedback = <<"Great form! Duration: 3 seconds">>

(* The latest call handed a push-up validator a valid Down frame, and      *)
(* reset() was not called since                                            *)
LastWasValidDown ==
  /\ result.status = "returned"
  /\ \E n \in 1..Len(result.feedback) : result.feedback[n] = "Push back up"
  /\ validationHistory # <<>>

(* C23: a push-up validator never misses a repetition because of an        *)
(* earlier blocked one: in every reachable state, once a valid Down frame  *)
(* (average angle < 70) has been processed, a valid Up frame (average      *)
(* angle > 160) processed at least 1000 ms after the last counted          *)
(* repetition increments repCount.                                         *)
C23_NoMissedRep ==
  (kind = "pushup" /\ LastWasValidDown) =>
    \A u \in PushUpFrames :
      ( /\ PassesForm(u)
        /\ AvgArmAngleAbove(u, 160)
        /\ (lastRepAt = 0 \/ now - lastRepAt >= 1000) ) =>
        validate(u).repCount = repCount + 1

(* C24: a push-up validator never double-counts: a frame counts only when  *)
(* the validator is in Down and leaves Down by counting; Down is entered   *)
(* only by validate() on a frame of valid form with average angle < 70;     *)
(* so an arms-extended frame (average angle > 160) seen outside Down never  *)
(* counts and never enters Down, however much time has passed.             *)
C24_NoDoubleCount ==
  /\ [](kind = "pushup" =>
          \A f \in PushUpFrames :
            LET out == validate(f)
            IN /\ out.repCount > repCount =>
                    (isInDownPosition /\ ~out.isInDownPosition)
               /\ (~isInDownPosition /\ out.isInDownPosition) =>
                    (PassesForm(f) /\ AvgArmAngleBelow(f, 70))
               /\ (AvgArmAngleAbove(f, 160) /\ ~isInDownPosition) =>
                    (out.repCount = repCount /\ ~out.isInDownPosition))
  /\ [][ (kind = "pushup" /\ ~isInDownPosition /\ isInDownPosition') =>
           (\E f \in PushUpFrames : AvgArmAngleBelow(f, 70) /\ PushUpValidate(f)) ]_vars

(* After one repetition the arms were held extended for 1000 ms and more,  *)
(* and the latest arms-extended frame counted nothing                      *)
C24_Witness ==
  /\ kind = "pushup"
  /\ repCount = 1
  /\ now - lastRepAt >= 1000
  /\ ~isInDownPosition
  /\ result.status = "returned"
  /\ result.isValid
  /\ ~result.completedRep
  /\ result.feedback = <<"Lower yourself down">>

(* C25: in every validator and every validate() call, repCount changes by  *)
(* 0 or by +1, and the returned completedRep is true if and only if        *)
(* repCount was incremented by 1 during the call.                          *)
C25_CompletedRepIffCounted ==
  \A f \in FramesFor(kind) :
    LET out == validate(f)
    IN /\ out.repCount - repCount \in {0, 1}
       /\ out.result.completedRep <=> (out.repCount = repCount + 1)

(* A chin-up validator has just counted its first repetition *)
C25_Witness ==
  /\ kind = "chinup"
  /\ repCount = 1
  /\ lastRepAt = now
  /\ result.status = "returned"
  /\ result.completedRep

(* C26 as claimed: in every validator, whenever validate() returns          *)
(* completedRep = true, the isValid field of the same result is true.      *)
C26_CreditedOnlyWhenReportedValid ==
  \A f \in FramesFor(kind) :
    LET out == validate(f)
    IN out.result.completedRep => out.result.isValid

(* C26 amended: whenever validate() returns completedRep = true, the form  *)
(* score of that frame exceeds 0.6 and the frame is recorded as a pass in  *)
(* the validation history; the returned isValid is the majority vote over  *)
(* the history and is true exactly when at least 3 entries are true.       *)
C26_CreditedOnlyOnPassingFrame ==
  \A f \in FramesFor(kind) :
    LET out == validate(f)
    IN out.result.completedRep =>
         /\ out.result.formScore.num * 10 > 6 * out.result.formScore.den
         /\ RecordedPass(out)
         /\ out.result.isValid <=> (TrueEntries(out.validationHistory) >= 3)

(* A repetition was counted on a frame whose result reports isValid = false *)
C26_Witness ==
  /\ result.status = "returned"
  /\ result.completedRep
  /\ ~result.isValid
  /\ repCount >= 1

(* C27: on a push-up validator a frame with average angle < 70 whose form  *)
(* is not valid leaves the phase and the count unchanged; Down is entered  *)
(* only on a frame of valid form with average angle < 70; and an Up frame   *)
(* (average angle > 160) counts only when the validator is in Down, which  *)
(* the counting call leaves.                                               *)
C27_DownNeedsValidForm ==
  kind = "pushup" =>
    \A f \in PushUpFrames :
      LET out == validate(f)
      IN /\ (ScoredFrame(f) /\ AvgArmAngleBelow(f, 70) /\ ~PassesForm(f)) =>
              /\ out.isInDownPosition = isInDownPosition
              /\ out.isInUpPosition = isInUpPosition
              /\ out.repCount = repCount
         /\ (out.isInDownPosition /\ ~isInDownPosition) =>
              (PassesForm(f) /\ AvgArmAngleBelow(f, 70))
         /\ (AvgArmAngleAbove(f, 160) /\ out.result.completedRep) =>
              (isInDownPosition /\ ~out.isInDownPosition)

(* A frame with bent arms and invalid form was scored outside Down and the *)
(* validator stayed outside Down                                           *)
C27_Witness ==
  /\ kind = "pushup"
  /\ ~isInDownPosition
  /\ ~isInUpPosition
  /\ validationHistory # <<>>
  /\ result.status = "returned"
  /\ result.formScore = Score(1, 3)
  /\ result.feedback = <<"Keep your body straight - align shoulders with hips">>

(* C28: a chin-up validator enters Up only on a frame of valid form with   *)
(* average arm angle < 70 and chin-over-bar score > 0.7; a frame with a     *)
(* narrow arm angle on which the nose is not above the mean wrist height   *)
(* never enters Up; and a repetition is counted only when the validator is *)
(* in Up, which the counting call leaves.                                  *)
C28_UpNeedsChinOverBar ==
  kind = "chinup" =>
    \A f \in ChinUpFrames :
      LET out == validate(f)
      IN /\ (out.isInUpPosition /\ ~isInUpPosition) =>
              (PassesForm(f) /\ AvgArmAngleBelow(f, 70) /\ ChinOverBar(f))
         /\ (AvgArmAngleBelow(f, 70) /\ f.noseClearance <= 0 /\ ~isInUpPosition) =>
              ~out.isInUpPosition
         /\ out.repCount > repCount =>
              (isInUpPosition /\ ~out.isInUpPosition)

(* In Down, a valid frame with bent arms and the nose below the bar was    *)
(* scored and the validator did not enter Up                               *)
C28_Witness ==
  /\ kind = "chinup"
  /\ isInDownPosition
  /\ ~isInUpPosition
  /\ repCount = 0
  /\ result.status = "returned"
  /\ result.feedback = <<"Lower yourself down">>

C30_PlankReentry ==
  /\ [](kind = "plank" =>
          \A f \in FramesFor("plank") :
            LET out == validate(f)
            IN /\ (PassesForm(f) /\ ~isInPlankPosition) =>
                    /\ out.isInPlankPosition
                    /\ out.plankStartTime = now
                    /\ out.nextMilestoneIndex = nextMilestoneIndex
                    /\ out.repCount = repCount
                    /\ ~out.result.completedRep
               /\ out.result.completedRep =>
                    /\ isInPlankPosition
                    /\ now - plankStartTime >= milestoneDurations[nextMilestoneIndex + 1])
  /\ [][ (kind = "plank" /\ plankStartTime' # plankStartTime) =>
           \/ ~isInPlankPosition /\ isInPlankPosition' /\ plankStartTime' = now
           \/ Reset ]_vars

(* A second hold, started 8 s after the first, has run 4 s with the 5 s    *)
(* milestone kept and the 10 s milestone not awarded                       *)
C30_Witness ==
  /\ kind = "plank"
  /\ isInPlankPosition
  /\ plankStartTime = StartTime + 8000
  /\ plankDuration = 4000
  /\ lastStableTime = now
  /\ nextMilestoneIndex = 1
  /\ repCount = 1
  /\ ~result.completedRep

-----------------------------------------------------------------------------
(* C21: validator instances are independent: in every interleaving of      *)
(* validate() and reset() calls on two instances (of different classes or  *)
(* of the same class), a call on one instance leaves every field of the    *)
(* other instance unchanged, and when the caller turns to the other        *)
(* instance it finds the fields exactly as that instance's own calls left  *)
(* them, so each instance runs as it would alone on its own frames.        *)
C21_InstancesIndependent ==
  [][ \/ other' = other
      \/ (other' = Fields /\ Fields' = other /\ now' = now) ]_vars

(* A push-up instance has counted a repetition and a chin-up instance, fed *)
(* frames in between, is in mid-repetition                                 *)
C21_Witness ==
  /\ other.kind = "pushup"
  /\ other.repCount = 1
  /\ other.result.completedRep
  /\ kind = "chinup"
  /\ repCount = 0
  /\ isInDownPosition
  /\ isInUpPosition

====
